---- MODULE Spec2Model ----
(***************************************************************************)
(* Verification model of the Add Vendor workflow of dhamaka-v2:            *)
(*   - ZoneSelectorPage (zone selection state, limit warning)              *)
(*   - AddVendor (validation, submission request, success / failure        *)
(*     handling)                                                           *)
(* Prices are integers in thousandths of a currency unit, so that rounding *)
(* to two decimals is an observable conversion.                            *)
(***************************************************************************)
EXTENDS Integers, Sequences, FiniteSets, TLC

(***************************************************************************)
(* Zone catalog and input alphabet of the zone selector.                   *)
(***************************************************************************)

\* const MAX_ZONES = 28
MAX_ZONES == 28

\* Number of codes handed to handleZoneToggle beyond the MAX_ZONES codes of
\* the catalog (the handler accepts any string).
NumExtraCodes == 1

\* Number of selection slots that are filled by the freely toggled codes;
\* the first MAX_ZONES - FreeSlots codes are selected in ascending order.
FreeSlots == 2

\* Cap on the number of pending auto-hide timers of the limit warning.
MaxWarnTimers == 2

\* selection changes counted within one debounce burst
MaxBurst == 2

ZoneCodes == 1..(MAX_ZONES + NumExtraCodes)

BulkCodes == 1..(MAX_ZONES - FreeSlots)

FreeCodes == ZoneCodes \ BulkCodes

VARIABLES
    selectedZones,   \* useState<string[]>([]) of ZoneSelectorPage
    showMaxWarning,  \* useState(false) of ZoneSelectorPage
    warnTimers,      \* pending setTimeout(() => setShowMaxWarning(false), 3000)
    lastZone,        \* argument of the last handleZoneToggle call
    toggleParity,    \* flips at every handleZoneToggle call
    mounted,         \* ZoneSelectorPage is mounted
    persistTimers,   \* pending setTimeout(() => persistDraft({ selectedZones }), 400),
                     \* each with the selection its closure holds
    staleWarnTimers, \* pending auto-hide timers of unmounted page instances
    zoneEvent,       \* what the last step of ZoneSelectorPage was
    burstChanges,    \* selection changes the pending or last fired debounce timer
                     \* stands for, counted up to MaxBurst
    cancelledWrite,  \* the last unmount cleared a pending debounce timer
    pendingRestore,  \* the setSelectedZones(draft.selectedZones) of the load effect
                     \* has not been rendered yet
    draftZones,      \* selectedZones of the draft store
    sections,        \* state of the basics, geo, volumetric and charges hooks
    zoneRates,       \* zoneRates.zoneRates: fromZone -> toZone -> price
    priceChartFile,  \* useState<File | null>(null)
    transportMode,   \* useState<'road' | 'air' | 'rail' | 'ship'>('road')
    isSubmitting,    \* useState(false)
    refreshTrigger,  \* useState(0)
    draft,           \* the draft store (localStorage)
    savePending,     \* a debounced draft write of the form hooks is scheduled
    clearedDraft,    \* clearDraft has run and the user has made no edit since
    inflight,        \* requests handed to fetch and not yet settled
    fetchCalls,      \* number of fetch calls made
    sends,           \* number of submit actions that reached the fetch call
    toasts,          \* error messages shown by the last step
    event,           \* what the last step was
    escaped,         \* the last step let an exception leave handleSubmit uncaught
    rateMatrix,      \* the rate matrix store: (fromZone, toZone) -> price or unset
    mxResult,        \* the last store operation, its arguments and what it returned
    mxParity,        \* flips at every store operation
    card,            \* one ChargeCard: its cardName and its data
    cardUpdates      \* the onFieldChange calls of the last user action on the card

pageVars == <<selectedZones, showMaxWarning, warnTimers, lastZone, toggleParity,
              mounted, persistTimers, staleWarnTimers, zoneEvent, burstChanges,
              cancelledWrite, pendingRestore>>

zoneVars == <<pageVars, draftZones>>

formVars == <<sections, zoneRates, priceChartFile, transportMode>>

submitVars == <<isSubmitting, refreshTrigger, draft, savePending, clearedDraft, inflight,
                fetchCalls, sends, toasts, event, escaped>>

mxVars == <<rateMatrix, mxResult, mxParity>>

cardVars == <<card, cardUpdates>>

vars == <<zoneVars, formVars, submitVars, mxVars, cardVars>>

----------------------------------------------------------------------------
(***************************************************************************)
(* ZoneSelectorPage                                                        *)
(***************************************************************************)

\* prev.includes(zoneCode)
Includes(prev, zoneCode) == \E i \in 1..Len(prev) : prev[i] = zoneCode

KeepOther(z, zoneCode) == z # zoneCode

\* prev.filter((zone) => zone !== zoneCode)
FilterOut(prev, zoneCode) ==
    LET Go[i \in 0..Len(prev)] ==
            IF i = 0 THEN <<>>
            ELSE IF KeepOther(prev[i], zoneCode) THEN Append(Go[i - 1], prev[i])
                 ELSE Go[i - 1]
    IN  Go[Len(prev)]

\* variant: the limit is never found reached
LimitReachedNoCheck(prev) == FALSE

\* prev.length >= MAX_ZONES
LimitReached(prev) == Len(prev) >= MAX_ZONES

\* variant: a selected code is kept when MAX_ZONES codes are selected
ToggledSelectionKeepAt28(prev, zoneCode) ==
    IF Includes(prev, zoneCode)
    THEN IF Len(prev) >= MAX_ZONES THEN prev ELSE FilterOut(prev, zoneCode)
    ELSE IF LimitReached(prev) THEN prev ELSE Append(prev, zoneCode)

\* the updater passed to setSelectedZones: the selection it returns
ToggledSelection(prev, zoneCode) ==
    IF Includes(prev, zoneCode)
    THEN FilterOut(prev, zoneCode)
    ELSE IF LimitReached(prev) THEN prev ELSE Append(prev, zoneCode)

\* The codes the user may toggle in the current state. Codes of BulkCodes are
\* selected once, in ascending order; the codes of FreeCodes are toggled in
\* any order, before the first or after the last code of BulkCodes.
BulkSelected == {c \in BulkCodes : Includes(selectedZones, c)}

MayToggle(zoneCode) ==
    IF zoneCode \in BulkCodes
    THEN /\ ~Includes(selectedZones, zoneCode)
         /\ \A c \in BulkCodes : c < zoneCode => Includes(selectedZones, c)
    ELSE BulkSelected = {} \/ BulkSelected = BulkCodes

\* no setSelectedZones of the load effect waits to be rendered
NoRestore == [pending |-> FALSE, zones |-> <<>>]

\* the 400 ms of a debounce timer can have elapsed: not while the render of
\* a state update made in the same commit is still to come
DebounceElapsed == ~pendingRestore.pending

\* variant: the effect has no cleanup, earlier timers stay pending
ScheduledTimersNoCleanup(pending, selection) == pending \cup {selection}

\* the persist effect after a change of selectedZones: its cleanup clears
\* the pending timer, then a timer is set for the new selection
ScheduledTimers(pending, selection) == {selection}

\* variant: a deselect leaves the warning as it is
WarningAfterDeselectKept(shown) == shown

\* setShowMaxWarning(false) of the deselect branch
WarningAfterDeselect(shown) == FALSE

\* handleZoneToggle(zoneCode)
handleZoneToggle(zoneCode) ==
    /\ mounted
    /\ ~pendingRestore.pending
    /\ MayToggle(zoneCode)
    /\ selectedZones' = ToggledSelection(selectedZones, zoneCode)
    /\ IF Includes(selectedZones, zoneCode)
       THEN /\ showMaxWarning' = WarningAfterDeselect(showMaxWarning)
            /\ UNCHANGED warnTimers
       ELSE IF LimitReached(selectedZones)
            THEN /\ warnTimers + staleWarnTimers < MaxWarnTimers
                 /\ showMaxWarning' = TRUE
                 /\ warnTimers' = warnTimers + 1
            ELSE UNCHANGED <<showMaxWarning, warnTimers>>
    /\ persistTimers' =
           IF selectedZones' # selectedZones
           THEN ScheduledTimers(persistTimers, selectedZones')
           ELSE persistTimers
    /\ lastZone' = zoneCode
    /\ toggleParity' = 1 - toggleParity
    /\ burstChanges' =
           IF selectedZones' = selectedZones THEN burstChanges
           ELSE IF persistTimers = {} THEN 1
           ELSE IF burstChanges < MaxBurst THEN burstChanges + 1
           ELSE burstChanges
    /\ zoneEvent' = "toggle"
    /\ UNCHANGED <<mounted, staleWarnTimers, cancelledWrite, pendingRestore,
                   draftZones, formVars,
                   isSubmitting, refreshTrigger, draft, savePending, inflight,
                   fetchCalls, sends, toasts, event, escaped, mxVars, cardVars>>
    /\ clearedDraft' = FALSE

\* the callback of setTimeout(() => setShowMaxWarning(false), 3000)
HideWarningTimer ==
    /\ warnTimers > 0
    /\ warnTimers' = warnTimers - 1
    /\ showMaxWarning' = FALSE
    /\ zoneEvent' = "hide"
    /\ UNCHANGED <<selectedZones, lastZone, toggleParity, mounted, persistTimers,
                   staleWarnTimers, burstChanges, cancelledWrite, pendingRestore,
                   draftZones,
                   formVars, submitVars, mxVars, cardVars>>

\* the same callback, set by a page instance that has been unmounted since:
\* its setShowMaxWarning reaches no mounted state
StaleWarningTimer ==
    /\ staleWarnTimers > 0
    /\ staleWarnTimers' = staleWarnTimers - 1
    /\ zoneEvent' = "staleHide"
    /\ UNCHANGED <<selectedZones, showMaxWarning, warnTimers, lastZone, toggleParity,
                   mounted, persistTimers, burstChanges, cancelledWrite,
                   pendingRestore, draftZones,
                   formVars, submitVars, mxVars, cardVars>>

\* the draft store holds no selectedZones
NoDraftZones == [present |-> FALSE, zones |-> <<>>]

\* persistDraft({ selectedZones }): the selectedZones section it leaves
PersistedZones(selection) == [present |-> TRUE, zones |-> selection]

\* variant: a partial write replaces the draft, the other sections are gone
OtherSectionsAfterPartialWriteDropped(d) == "empty"

\* the form sections of the draft after persistDraft(partial) for another
\* section: the write merges, they stay
OtherSectionsAfterPartialWrite(d) == d

\* the callback of setTimeout(() => persistDraft({ selectedZones }), 400)
PersistTimerFires(selection) ==
    /\ selection \in persistTimers
    /\ DebounceElapsed
    /\ persistTimers' = persistTimers \ {selection}
    /\ draftZones' = PersistedZones(selection)
    /\ draft' = OtherSectionsAfterPartialWrite(draft)
    /\ zoneEvent' = "persist"
    /\ UNCHANGED <<selectedZones, showMaxWarning, warnTimers, lastZone, toggleParity,
                   mounted, staleWarnTimers, burstChanges, cancelledWrite,
                   pendingRestore, formVars,
                   isSubmitting, refreshTrigger, savePending, clearedDraft, inflight, fetchCalls,
                   sends, toasts, event, escaped, mxVars, cardVars>>

\* variant: the restored selection is appended to itself
RestoredSelectionTwice(d) == IF d.present THEN d.zones \o d.zones ELSE <<>>

\* the load effect: draft.selectedZones when it is an array, else the
\* initial []
RestoredSelection(d) == IF d.present THEN d.zones ELSE <<>>

\* variant: leaving the page leaves its debounce timer pending
TimersAfterUnmountKept(pending) == pending

\* the cleanup of the persist effect at unmount: clearTimeout(timer)
TimersAfterUnmount(pending) == {}

\* ZoneSelectorPage is mounted: useState initial values, the load effect,
\* the persist effect of the render that shows the restored selection
MountZoneSelector ==
    /\ ~mounted
    /\ mounted' = TRUE
    /\ selectedZones' = RestoredSelection(draftZones)
    /\ persistTimers' = ScheduledTimers({}, selectedZones')
    /\ showMaxWarning' = FALSE
    /\ warnTimers' = 0
    /\ lastZone' = 0
    /\ burstChanges' = 0
    /\ cancelledWrite' = FALSE
    /\ pendingRestore' = NoRestore
    /\ zoneEvent' = "mount"
    /\ UNCHANGED <<toggleParity, staleWarnTimers, draftZones, formVars, submitVars,
                   mxVars, cardVars>>

\* ZoneSelectorPage is mounted, first render and its effects: the state is
\* the initial [], the load effect calls setSelectedZones when the draft
\* holds a selection, the persist effect starts the timer for []
MountRender ==
    /\ ~mounted
    /\ mounted' = TRUE
    /\ selectedZones' = <<>>
    /\ persistTimers' = ScheduledTimers({}, selectedZones')
    /\ pendingRestore' =
           [pending |-> draftZones.present, zones |-> RestoredSelection(draftZones)]
    /\ showMaxWarning' = FALSE
    /\ warnTimers' = 0
    /\ lastZone' = 0
    /\ burstChanges' = 0
    /\ cancelledWrite' = FALSE
    /\ zoneEvent' = "mount"
    /\ UNCHANGED <<toggleParity, staleWarnTimers, draftZones, formVars, submitVars,
                   mxVars, cardVars>>

\* variant: the persist effect has no cleanup, the timer of the first render
\* stays pending
RestoreRerenderKeepsTimer ==
    /\ mounted
    /\ pendingRestore.pending
    /\ selectedZones' = pendingRestore.zones
    /\ persistTimers' = persistTimers \cup {selectedZones'}
    /\ pendingRestore' = NoRestore
    /\ zoneEvent' = "restore"
    /\ UNCHANGED <<showMaxWarning, warnTimers, lastZone, toggleParity, mounted,
                   staleWarnTimers, burstChanges, cancelledWrite, draftZones,
                   formVars, submitVars, mxVars, cardVars>>

\* the render that follows the setSelectedZones of the load effect: the
\* persist effect runs again, its cleanup first
RestoreRerender ==
    /\ mounted
    /\ pendingRestore.pending
    /\ selectedZones' = pendingRestore.zones
    /\ persistTimers' = ScheduledTimers(persistTimers, selectedZones')
    /\ pendingRestore' = NoRestore
    /\ zoneEvent' = "restore"
    /\ UNCHANGED <<showMaxWarning, warnTimers, lastZone, toggleParity, mounted,
                   staleWarnTimers, burstChanges, cancelledWrite, draftZones,
                   formVars, submitVars, mxVars, cardVars>>

\* navigate('/addvendor'): the page is unmounted, its state is gone, its
\* auto-hide timers stay pending
LeaveZoneSelector ==
    /\ mounted
    /\ mounted' = FALSE
    /\ persistTimers' = TimersAfterUnmount(persistTimers)
    /\ staleWarnTimers' = staleWarnTimers + warnTimers
    /\ warnTimers' = 0
    /\ showMaxWarning' = FALSE
    /\ selectedZones' = <<>>
    /\ lastZone' = 0
    /\ cancelledWrite' = (persistTimers # {})
    /\ pendingRestore' = NoRestore
    /\ UNCHANGED <<toggleParity, burstChanges, draftZones, formVars, submitVars,
                   mxVars, cardVars>>

\* handleContinue
handleContinue ==
    /\ Len(selectedZones) # 0
    /\ LeaveZoneSelector
    /\ zoneEvent' = "continue"

\* handleBack
handleBack ==
    /\ LeaveZoneSelector
    /\ zoneEvent' = "back"

ZoneInit ==
    /\ selectedZones = <<>>
    /\ showMaxWarning = FALSE
    /\ warnTimers = 0
    /\ lastZone = 0
    /\ toggleParity = 0
    /\ mounted = TRUE
    /\ persistTimers = ScheduledTimers({}, <<>>)
    /\ staleWarnTimers = 0
    /\ zoneEvent = "mount"
    /\ burstChanges = 0
    /\ cancelledWrite = FALSE
    /\ pendingRestore = NoRestore
    /\ draftZones = NoDraftZones

----------------------------------------------------------------------------
(***************************************************************************)
(* AddVendor: form state                                                   *)
(***************************************************************************)

\* Cap on the number of submit actions that reach the fetch call.
MaxSends == 2

\* the hooks useVendorBasics, usePincodeLookup, useVolumetric, useCharges
SectionNames == {"basics", "geo", "volumetric", "charges"}

\* content of a section: as constructed (required fields empty), or filled
\* in with valid values
SectionContents == {"initial", "filled"}

\* vendorBasics.validateAll, pincodeLookup.validateGeo,
\* volumetric.validateVolumetric, charges.validateAll
SectionValid(content) == content = "filled"

\* the zones of the rate matrix under edit
FromZones == {"N1"}

ToZones == {"N1", "S1"}

\* a price cell: <<>> is "unset", <<p>> is the price p (in thousandths)
Unset == <<>>

PriceVals == {-5000, 12550, 50005}

Cells == {Unset} \cup {<<p>> : p \in PriceVals}

EmptyMatrix == [f \in FromZones |-> [t \in ToZones |-> Unset]]

\* zoneRates.validateZoneRates: every pair has a price, none negative
validateZoneRates(matrix) ==
    \A f \in FromZones, t \in ToZones :
        /\ matrix[f][t] # Unset
        /\ matrix[f][t][1] >= 0

\* variant: a price is always moved up to the next hundredth
RoundTo2AlwaysUp(p) == ((p + 10) \div 10) * 10

\* half-up rounding of a price to two decimals
RoundTo2(p) == ((p + 5) \div 10) * 10

\* variant: an unset entry comes back as a zero price
normalizeUnsetAsZero(matrix) ==
    [f \in FromZones |-> [t \in ToZones |->
        IF matrix[f][t] = Unset THEN <<0>> ELSE <<RoundTo2(matrix[f][t][1])>>]]

\* normalize: every present price rounded, same shape, unset stays unset
normalize(matrix) ==
    [f \in FromZones |-> [t \in ToZones |->
        IF matrix[f][t] = Unset THEN Unset ELSE <<RoundTo2(matrix[f][t][1])>>]]

\* companyName as entered in a valid basics section, and String.trim of it
EnteredCompanyName == " Acme "

Trim(name) == IF name = " Acme " THEN "Acme" ELSE name

----------------------------------------------------------------------------
(***************************************************************************)
(* AddVendor: auth token                                                   *)
(***************************************************************************)

\* the claims getCustomerIDFromToken looks at, in the order of the || chain
ClaimOrder == <<"customer._id", "user._id", "_id", "id", "customerId", "customerID">>

ClaimNames == {ClaimOrder[i] : i \in 1..Len(ClaimOrder)}

\* decoded payloads: a claim maps to "" when it is missing or empty
Payloads ==
    {p \in [ClaimNames -> {"", "cust1"}] :
        Cardinality({c \in ClaimNames : p[c] # ""}) <= 1}

\* what getAuthToken returns: '' (absent), a token of one segment, a token
\* whose second segment does not decode, a token with a decoded payload
Tokens ==
    {[segments |-> 0, decodes |-> FALSE, payload |-> [c \in ClaimNames |-> ""]],
     [segments |-> 1, decodes |-> FALSE, payload |-> [c \in ClaimNames |-> ""]],
     [segments |-> 3, decodes |-> FALSE, payload |-> [c \in ClaimNames |-> ""]]}
    \cup {[segments |-> 3, decodes |-> TRUE, payload |-> p] : p \in Payloads}

\* a || b || ... || '' over the claims in ClaimOrder
FirstTruthy(payload) ==
    LET Go[i \in 1..(Len(ClaimOrder) + 1)] ==
            IF i > Len(ClaimOrder) THEN ""
            ELSE IF payload[ClaimOrder[i]] # "" THEN payload[ClaimOrder[i]]
                 ELSE Go[i + 1]
    IN  Go[1]

\* variant: a default identifier stands in for a missing one
getCustomerIDOrDefault(token) ==
    IF token.segments < 2 \/ ~token.decodes \/ FirstTruthy(token.payload) = ""
    THEN "anonymous"
    ELSE FirstTruthy(token.payload)

\* getCustomerIDFromToken
getCustomerIDFromToken(token) ==
    IF token.segments < 2 THEN ""
    ELSE IF ~token.decodes THEN ""
         ELSE FirstTruthy(token.payload)

----------------------------------------------------------------------------
(***************************************************************************)
(* AddVendor: validation and submission                                    *)
(***************************************************************************)

GenericError == "An unexpected error occurred. Please try again."

\* the sections in the order validateAll checks them
ValidationOrder == <<"basics", "geo", "volumetric", "charges", "zoneRates">>

\* validator of one section of ValidationOrder on the current form state
SectionPasses(s) ==
    IF s = "zoneRates" THEN validateZoneRates(zoneRates) ELSE SectionValid(sections[s])

\* variant: validation stops at the first failing section
ValidationErrorsShortCircuit ==
    LET failing == {i \in 1..Len(ValidationOrder) : ~SectionPasses(ValidationOrder[i])}
    IN  IF failing = {} THEN {}
        ELSE {ValidationOrder[CHOOSE i \in failing : \A j \in failing : i <= j]}

\* the errors validateAll collects, one per failing section
ValidationErrors ==
    {ValidationOrder[i] : i \in {j \in 1..Len(ValidationOrder) :
                                    ~SectionPasses(ValidationOrder[j])}}

\* validateAll(): isValid
validateAll == ValidationErrors = {}

\* variant: the vendor object takes the normalized matrix
VendorZoneRatesNormalized(raw, normalized) == normalized

\* the zoneRates field of the vendor object: zoneRates.zoneRates
VendorZoneRates(raw, normalized) == raw

\* the vendor object built by handleSubmit (the fields the model follows)
BuildVendor(normalized) ==
    [companyName |-> EnteredCompanyName,
     transportMode |-> transportMode,
     zoneRates   |-> VendorZoneRates(zoneRates, normalized),
     status      |-> "submitted"]

\* variant: the chosen file is sent as it is, none when none was chosen
FileToSendAsChosen == priceChartFile

\* fileToSend: the chosen file, or a generated placeholder
FileToSend == IF priceChartFile = "none" THEN "placeholder" ELSE priceChartFile

\* the FormData handed to fetch; validated and normalized record the matrix
\* validateAll checked and the one normalizeAndValidate returned
BuildRequest(customerID, normalized) ==
    [id          |-> sends + 1,
     customerID  |-> customerID,
     companyName |-> Trim(BuildVendor(normalized).companyName),
     priceRate   |-> "0",
     priceChart  |-> FileToSend,
     vendorJson  |-> BuildVendor(normalized),
     validated   |-> zoneRates,
     normalized  |-> normalized]

\* variant: the submit button is never disabled
SubmitAlwaysEnabled == TRUE

\* the submit button: disabled={isSubmitting}
SubmitEnabled == ~isSubmitting

\* handleSubmit up to its first await. normalizeOk: normalizeAndValidate
\* returned a matrix (not null).
handleSubmit(token, normalizeOk) ==
    /\ SubmitEnabled
    /\ IF ~validateAll
       THEN /\ toasts' = ValidationErrors
            /\ event' = "validationFailed"
            /\ UNCHANGED <<isSubmitting, inflight, fetchCalls, sends>>
       ELSE IF ~normalizeOk
       THEN /\ toasts' = {"Failed to normalize zone rates"}
            /\ event' = "normalizeFailed"
            /\ isSubmitting' = FALSE
            /\ UNCHANGED <<inflight, fetchCalls, sends>>
       ELSE IF getCustomerIDFromToken(token) = ""
       THEN /\ toasts' = {"No customerID found in token"}
            /\ event' = "noCustomerID"
            /\ isSubmitting' = FALSE
            /\ UNCHANGED <<inflight, fetchCalls, sends>>
       ELSE /\ sends < MaxSends
            /\ inflight' = inflight \cup
                   {BuildRequest(getCustomerIDFromToken(token), normalize(zoneRates))}
            /\ fetchCalls' = fetchCalls + 1
            /\ sends' = sends + 1
            /\ isSubmitting' = TRUE
            /\ toasts' = {}
            /\ event' = "sent"
    /\ UNCHANGED <<formVars, refreshTrigger, draft, savePending, clearedDraft, zoneVars, mxVars, cardVars>>
    /\ escaped' = FALSE

\* how a request settles: fetch rejects; the status is not OK; the body has
\* no truthy success flag; the body does not parse; OK with success
FailureOutcomes == {"networkError", "notOk", "noSuccessFlag", "unparseable"}

\* variant: a failed request is sent again
RequestFailedRetry(req, outcome) ==
    /\ req \in inflight
    /\ outcome \in FailureOutcomes
    /\ fetchCalls < MaxSends + 1
    /\ fetchCalls' = fetchCalls + 1
    /\ toasts' = {}
    /\ event' = "requestFailed"
    /\ UNCHANGED <<inflight, isSubmitting, formVars, refreshTrigger, draft,
                   savePending, clearedDraft, sends, zoneVars, mxVars, cardVars>>
    /\ escaped' = FALSE

\* variant: no finally block, a failed request leaves isSubmitting as it is
RequestFailedNoFinally(req, outcome) ==
    /\ req \in inflight
    /\ outcome \in FailureOutcomes
    /\ inflight' = inflight \ {req}
    /\ toasts' = IF outcome = "networkError" THEN {GenericError}
                 ELSE {"Failed to create vendor"}
    /\ event' = IF outcome = "networkError" THEN "networkError" ELSE "requestFailed"
    /\ UNCHANGED <<isSubmitting, formVars, refreshTrigger, draft, savePending, clearedDraft,
                   fetchCalls, sends, zoneVars, mxVars, cardVars>>
    /\ escaped' = FALSE

\* handleSubmit after the await, the request having failed
RequestFailed(req, outcome) ==
    /\ req \in inflight
    /\ outcome \in FailureOutcomes
    /\ inflight' = inflight \ {req}
    /\ toasts' = IF outcome = "networkError" THEN {GenericError}
                 ELSE {"Failed to create vendor"}
    /\ event' = IF outcome = "networkError" THEN "networkError" ELSE "requestFailed"
    /\ isSubmitting' = FALSE
    /\ UNCHANGED <<formVars, refreshTrigger, draft, savePending, clearedDraft, fetchCalls,
                   sends, zoneVars, mxVars, cardVars>>
    /\ escaped' = FALSE

\* variant: the success flow leaves the chosen file in place
RequestSucceededKeepsFile(req) ==
    /\ req \in inflight
    /\ inflight' = inflight \ {req}
    /\ draft' = "empty"
    /\ clearedDraft' = TRUE
    /\ sections' = [s \in SectionNames |-> "initial"]
    /\ zoneRates' = EmptyMatrix
    /\ refreshTrigger' = refreshTrigger + 1
    /\ isSubmitting' = FALSE
    /\ toasts' = {}
    /\ event' = "success"
    /\ escaped' = FALSE
    /\ UNCHANGED <<priceChartFile, transportMode, savePending, fetchCalls, sends,
                   pageVars, mxVars, cardVars>>
    /\ draftZones' = NoDraftZones

\* handleSubmit after the await, res.ok and json.success
RequestSucceeded(req) ==
    /\ req \in inflight
    /\ inflight' = inflight \ {req}
    /\ draft' = "empty"
    /\ clearedDraft' = TRUE
    /\ sections' = [s \in SectionNames |-> "initial"]
    /\ zoneRates' = EmptyMatrix
    /\ priceChartFile' = "none"
    /\ refreshTrigger' = refreshTrigger + 1
    /\ isSubmitting' = FALSE
    /\ toasts' = {}
    /\ event' = "success"
    /\ UNCHANGED <<transportMode, savePending, fetchCalls, sends, pageVars, mxVars,
                   cardVars>>
    /\ draftZones' = NoDraftZones
    /\ escaped' = FALSE

\* the calls of handleSubmit that run outside and inside its try block
ThrowPoints == {"validate", "normalize", "assemble"}

\* handleSubmit when a call of its synchronous part throws: validateAll runs
\* before the try block, normalizeAndValidate and the assembly run inside it
handleSubmitThrows(point) ==
    /\ SubmitEnabled
    /\ IF point = "validate"
       THEN /\ escaped' = TRUE
            /\ toasts' = {}
            /\ event' = "threw"
            /\ UNCHANGED isSubmitting
       ELSE /\ validateAll
            /\ escaped' = FALSE
            /\ toasts' = {GenericError}
            /\ event' = "exception"
            /\ isSubmitting' = FALSE
    /\ UNCHANGED <<formVars, refreshTrigger, draft, savePending, clearedDraft, inflight,
                   fetchCalls, sends, zoneVars, mxVars, cardVars>>

\* the calls of the success flow that may throw, in the order they are made
SuccessCalls == <<"clearDraft", "basics", "geo", "volumetric", "charges", "zoneRates">>

\* handleSubmit after the await, res.ok and json.success, when call number i
\* of the success flow throws: the calls before it have taken effect
RequestSucceededThrows(req, i) ==
    /\ req \in inflight
    /\ inflight' = inflight \ {req}
    /\ draft' = IF i > 1 THEN "empty" ELSE draft
    /\ clearedDraft' = IF i > 1 THEN TRUE ELSE clearedDraft
    /\ sections' = [s \in SectionNames |->
           IF \E j \in 1..(i - 1) : SuccessCalls[j] = s THEN "initial" ELSE sections[s]]
    /\ UNCHANGED <<zoneRates, priceChartFile, transportMode, refreshTrigger>>
    /\ isSubmitting' = FALSE
    /\ toasts' = {GenericError}
    /\ event' = "exception"
    /\ escaped' = FALSE
    /\ UNCHANGED <<savePending, fetchCalls, sends, pageVars, mxVars, cardVars>>
    /\ draftZones' = IF i > 1 THEN NoDraftZones ELSE draftZones

\* handleReset; confirmed: the answer to confirm(...)
handleReset(confirmed) ==
    /\ IF confirmed
       THEN /\ sections' = [s \in SectionNames |-> "initial"]
            /\ zoneRates' = EmptyMatrix
            /\ priceChartFile' = "none"
            /\ draft' = "empty"
            /\ draftZones' = NoDraftZones
            /\ clearedDraft' = TRUE
            /\ event' = "reset"
            /\ UNCHANGED transportMode
       ELSE /\ UNCHANGED <<formVars, draft, draftZones, clearedDraft>>
            /\ event' = "resetDeclined"
    /\ toasts' = {}
    /\ UNCHANGED <<isSubmitting, refreshTrigger, savePending, inflight,
                   fetchCalls, sends, pageVars, mxVars, cardVars>>
    /\ escaped' = FALSE

\* the user edits one of the four sections
EditSection(s, content) ==
    /\ sections[s] # content
    /\ sections' = [sections EXCEPT ![s] = content]
    /\ savePending' = TRUE
    /\ clearedDraft' = FALSE
    /\ toasts' = {}
    /\ event' = "edit"
    /\ UNCHANGED <<zoneRates, priceChartFile, transportMode, isSubmitting,
                   refreshTrigger, draft,
                   inflight, fetchCalls, sends, zoneVars, mxVars, cardVars>>
    /\ escaped' = FALSE

\* the user enters or clears one price of the matrix
EditZoneRate(f, t, cell) ==
    /\ zoneRates[f][t] # cell
    /\ zoneRates' = [zoneRates EXCEPT ![f][t] = cell]
    /\ savePending' = TRUE
    /\ clearedDraft' = FALSE
    /\ toasts' = {}
    /\ event' = "edit"
    /\ UNCHANGED <<sections, priceChartFile, transportMode, isSubmitting,
                   refreshTrigger, draft,
                   inflight, fetchCalls, sends, zoneVars, mxVars, cardVars>>
    /\ escaped' = FALSE

\* PriceChartUpload: onFileChange={setPriceChartFile}
ChooseFile(file) ==
    /\ priceChartFile # file
    /\ priceChartFile' = file
    /\ clearedDraft' = FALSE
    /\ toasts' = {}
    /\ event' = "edit"
    /\ UNCHANGED <<sections, zoneRates, transportMode, isSubmitting,
                   refreshTrigger, draft,
                   savePending, inflight, fetchCalls, sends, zoneVars, mxVars, cardVars>>
    /\ escaped' = FALSE

\* the transport modes the user picks from
TransportModes == {"road", "air"}

\* BasicsSection: onTransportModeChange={setTransportMode}
setTransportMode(mode) ==
    /\ transportMode # mode
    /\ transportMode' = mode
    /\ clearedDraft' = FALSE
    /\ toasts' = {}
    /\ event' = "edit"
    /\ UNCHANGED <<sections, zoneRates, priceChartFile, isSubmitting, refreshTrigger,
                   draft, savePending, inflight, fetchCalls, sends, zoneVars, mxVars,
                   cardVars>>
    /\ escaped' = FALSE

\* the debounced draft write of the form hooks fires
AutoSaveDraft ==
    /\ savePending
    /\ savePending' = FALSE
    /\ draft' = "saved"
    /\ toasts' = {}
    /\ event' = "autosave"
    /\ UNCHANGED <<formVars, clearedDraft, isSubmitting, refreshTrigger, inflight, fetchCalls,
                   sends, zoneVars, mxVars, cardVars>>
    /\ escaped' = FALSE

----------------------------------------------------------------------------
(***************************************************************************)
(* Rate matrix store, validator                                            *)
(***************************************************************************)

\* the zones the store operations are exercised on
MxCodes == {MAX_ZONES - 1, MAX_ZONES}

MxPairs == MxCodes \X MxCodes

\* prices in thousandths: a negative one, an explicit zero, a positive one
MxPrices == {-5000, 0, 12550}

MxCells == {Unset} \cup {<<p>> : p \in MxPrices}

\* the values passed to setPrice: clear, a negative price, a price
SetPriceValues == {Unset, <<-5000>>, <<12550>>}

\* the store before any operation: no entry
EmptyStore == [pr \in {} |-> Unset]

\* every content a store over MxCodes can have, as a draft may hold it
Stores == UNION {[D -> MxCells] : D \in SUBSET MxPairs}

\* the active zone set: the zones selected
ActiveZones == {selectedZones[i] : i \in 1..Len(selectedZones)}

\* variant: entries outside the new zone sets are kept
InitializedKeepingOld(store, fromZones, toZones) ==
    [pr \in (fromZones \X toZones) \cup DOMAIN store |->
        IF pr \in DOMAIN store THEN store[pr] ELSE Unset]

\* the store initialize leaves: one entry per pair of fromZones x toZones,
\* with the price the pair had, unset when it had none
Initialized(store, fromZones, toZones) ==
    [pr \in fromZones \X toZones |->
        IF pr \in DOMAIN store THEN store[pr] ELSE Unset]

\* initialize(fromZones, toZones)
initialize(fromZones, toZones) ==
    /\ rateMatrix' = Initialized(rateMatrix, fromZones, toZones)
    /\ mxResult' = [op |-> "initialize", from |-> fromZones, to |-> toZones]
    /\ mxParity' = 1 - mxParity
    /\ UNCHANGED <<zoneVars, formVars, submitVars, cardVars>>

\* variant: a negative value is accepted
PriceErrorZonesOnly(active, from, to, value) ==
    IF from \notin active \/ to \notin active THEN "zoneNotActive" ELSE "none"

\* the input error setPrice signals, "none" when it signals none
PriceError(active, from, to, value) ==
    IF from \notin active \/ to \notin active THEN "zoneNotActive"
    ELSE IF value # Unset /\ value[1] < 0 THEN "negativeValue"
    ELSE "none"

\* the store with the entry of (from, to) set to value
PriceSet(store, from, to, value) ==
    [pr \in DOMAIN store \cup {<<from, to>>} |->
        IF pr = <<from, to>> THEN value ELSE store[pr]]

\* setPrice(from, to, value)
setPrice(from, to, value) ==
    LET error == PriceError(ActiveZones, from, to, value) IN
    /\ rateMatrix' = IF error = "none" THEN PriceSet(rateMatrix, from, to, value)
                     ELSE rateMatrix
    /\ mxResult' = [op |-> "setPrice", from |-> from, to |-> to, value |-> value,
                    error |-> error]
    /\ mxParity' = 1 - mxParity
    /\ UNCHANGED <<zoneVars, formVars, submitVars, cardVars>>

\* the pairs of MxCodes in the order validate visits them
PairList ==
    LET lo == MAX_ZONES - 1
        hi == MAX_ZONES
    IN  <<<<lo, lo>>, <<lo, hi>>, <<hi, lo>>, <<hi, hi>>>>

\* variant: only a pair without an entry is missing
IsMissingOnlyAbsent(store, pr) == pr \notin DOMAIN store

\* the pair has no price: no entry, or an entry that is unset
IsMissing(store, pr) == pr \notin DOMAIN store \/ store[pr] = Unset

\* the errors of one kind, one per pair found to have the fault
ErrorsOfKind(kind, found) ==
    [i \in 1..Len(found) |-> [kind |-> kind, pair |-> found[i]]]

\* validate(matrix, activeZones): whether it succeeds, and the errors
validate(store, activeZones) ==
    LET InScope(pr) == pr[1] \in activeZones /\ pr[2] \in activeZones
        Missing(pr) == InScope(pr) /\ IsMissing(store, pr)
        Negative(pr) == /\ pr \in DOMAIN store
                        /\ store[pr] # Unset
                        /\ store[pr][1] < 0
        OutOfScope(pr) == pr \in DOMAIN store /\ ~InScope(pr)
        errors == ErrorsOfKind("missing", SelectSeq(PairList, Missing))
                      \o ErrorsOfKind("negative", SelectSeq(PairList, Negative))
                      \o ErrorsOfKind("outOfScope", SelectSeq(PairList, OutOfScope))
    IN  [ok |-> errors = <<>>, errors |-> errors]

\* validate is called on the store
ValidateMatrix(activeZones) ==
    LET result == validate(rateMatrix, activeZones) IN
    /\ mxResult' = [op |-> "validate", active |-> activeZones, ok |-> result.ok,
                    errors |-> result.errors]
    /\ mxParity' = 1 - mxParity
    /\ UNCHANGED <<rateMatrix, zoneVars, formVars, submitVars, cardVars>>

\* the prices entered before normalize is called: unset, and prices with
\* three decimals below, at and above half a hundredth
NormalizeCells == {Unset, <<0>>, <<-5005>>, <<50004>>, <<50005>>, <<130753>>}

\* normalize is called on the matrix of the form, and again on what it
\* returned
NormalizeMatrix ==
    LET output == normalize(zoneRates) IN
    /\ mxResult' = [op |-> "normalize", input |-> zoneRates, output |-> output,
                    again |-> normalize(output)]
    /\ mxParity' = 1 - mxParity
    /\ UNCHANGED <<rateMatrix, zoneVars, formVars, submitVars, cardVars>>

MatrixInit ==
    /\ rateMatrix = EmptyStore
    /\ mxResult = [op |-> "none"]
    /\ mxParity = 0

\* a store as a draft may hold it, before validate is called
StoredMatrixInit ==
    /\ rateMatrix \in Stores
    /\ mxResult = [op |-> "none"]
    /\ mxParity = 0

----------------------------------------------------------------------------
(***************************************************************************)
(* ChargeCard                                                              *)
(***************************************************************************)

CardNames ==
    {"handlingCharges", "rovCharges", "codCharges", "toPayCharges",
     "appointmentCharges"}

Currencies == {"INR", "PERCENT"}

Modes == {"FIXED", "VARIABLE"}

\* the values the other fields of ChargeCardData take
FieldValues ==
    [fixedAmount |-> {"0", "250"}, variableRange |-> {"0%-1%", "1%-2%"},
     unit |-> {"per kg", "per box"}, weightThreshold |-> {"0", "500"}]

\* every ChargeCardData a card may be handed, as loaded from a draft
CardData ==
    [currency : Currencies, mode : Modes, fixedAmount : FieldValues.fixedAmount,
     variableRange : FieldValues.variableRange, unit : FieldValues.unit,
     weightThreshold : FieldValues.weightThreshold]

\* variant: every card has the Fixed / Variable pills
supportsVariablePercentAll(cardName) == TRUE

\* const supportsVariablePercent
supportsVariablePercent(cardName) ==
    cardName # "codCharges" /\ cardName # "toPayCharges"

isFixedRupee(data) == data.currency = "INR" /\ data.mode = "FIXED"

isVariablePercent(data) == data.currency = "PERCENT" /\ data.mode = "VARIABLE"

\* the fixed rate input is rendered
showFixed(cardName, data) ==
    IF supportsVariablePercent(cardName) THEN isFixedRupee(data) ELSE TRUE

\* the percentage range selector is rendered
showVariable(cardName, data) ==
    isVariablePercent(data) /\ supportsVariablePercent(cardName)

\* the toggle pills are rendered
showToggle(cardName) == supportsVariablePercent(cardName)

\* setCardField(cardName, field, value) of useCharges: the data it leaves
setCardField(data, field, value) == [data EXCEPT ![field] = value]

\* the onFieldChange calls of one handler, applied in the order made
RECURSIVE AppliedUpdates(_, _)
AppliedUpdates(data, updates) ==
    IF updates = <<>> THEN data
    ELSE AppliedUpdates(setCardField(data, Head(updates).field, Head(updates).value),
                        Tail(updates))

\* a user action on the card that calls onFieldChange for each of updates
CardAction(updates) ==
    /\ card' = [card EXCEPT !.data = AppliedUpdates(card.data, updates)]
    /\ cardUpdates' = updates
    /\ UNCHANGED <<zoneVars, formVars, submitVars, mxVars>>

\* onClick of the Fixed pill
ClickFixed ==
    /\ showToggle(card.name)
    /\ CardAction(<<[field |-> "currency", value |-> "INR"],
                    [field |-> "mode", value |-> "FIXED"]>>)

\* onClick of the Variable pill
ClickVariable ==
    /\ showToggle(card.name)
    /\ CardAction(<<[field |-> "currency", value |-> "PERCENT"],
                    [field |-> "mode", value |-> "VARIABLE"]>>)

\* onChange of the fixed rate input
ChangeFixedAmount(value) ==
    /\ showFixed(card.name, card.data)
    /\ CardAction(<<[field |-> "fixedAmount", value |-> value]>>)

\* onChange of the percentage range selector
ChangeVariableRange(value) ==
    /\ showVariable(card.name, card.data)
    /\ CardAction(<<[field |-> "variableRange", value |-> value]>>)

\* onChange of the unit selector
ChangeUnit(value) ==
    /\ card.name = "handlingCharges"
    /\ CardAction(<<[field |-> "unit", value |-> value]>>)

\* onChange of the weight threshold input
ChangeWeightThreshold(value) ==
    /\ card.name = "handlingCharges"
    /\ CardAction(<<[field |-> "weightThreshold", value |-> value]>>)

\* the card of the handling charges, fixed, nothing entered
CardInit ==
    /\ card = [name |-> "handlingCharges",
               data |-> [currency |-> "INR", mode |-> "FIXED", fixedAmount |-> "0",
                         variableRange |-> "0%-1%", unit |-> "per kg",
                         weightThreshold |-> "0"]]
    /\ cardUpdates = <<>>

\* any of the five cards, with any data
AnyCardInit ==
    /\ card \in [name : CardNames, data : CardData]
    /\ cardUpdates = <<>>

AddVendorInit ==
    /\ sections = [s \in SectionNames |-> "initial"]
    /\ zoneRates = EmptyMatrix
    /\ priceChartFile = "none"
    /\ transportMode = "road"
    /\ isSubmitting = FALSE
    /\ refreshTrigger = 0
    /\ draft = "empty"
    /\ savePending = FALSE
    /\ clearedDraft = FALSE
    /\ inflight = {}
    /\ fetchCalls = 0
    /\ sends = 0
    /\ toasts = {}
    /\ event = "mounted"
    /\ escaped = FALSE

Init == ZoneInit /\ AddVendorInit /\ MatrixInit /\ CardInit

----------------------------------------------------------------------------
(***************************************************************************)
(* Specifications                                                          *)
(***************************************************************************)

\* ZoneSelectorPage
ZoneNext ==
    \/ \E zoneCode \in ZoneCodes : handleZoneToggle(zoneCode)
    \/ HideWarningTimer

SpecZone == Init /\ [][ZoneNext]_vars

\* the codes the user selects in one quick run of clicks, in ascending
\* order, each click before the debounce timer of the previous one fires
QuickCodes == 1..(MAX_ZONES - 1)

QuickSelected == {c \in QuickCodes : Includes(selectedZones, c)}

\* no quick run is under way
BetweenRuns == QuickSelected = {} \/ QuickSelected = QuickCodes

\* ZoneSelectorPage with its draft: the user toggles codes, leaves for
\* AddVendor and comes back, resets the form there.  The codes of QuickCodes
\* are selected in one run; the other codes are toggled freely after it.
\* Timers fire and the user navigates between runs.
DraftNext ==
    \/ \E zoneCode \in ZoneCodes :
           /\ IF zoneCode \in QuickCodes
              THEN /\ ~Includes(selectedZones, zoneCode)
                   /\ \A c \in QuickCodes : c < zoneCode => Includes(selectedZones, c)
              ELSE QuickSelected = QuickCodes
           /\ handleZoneToggle(zoneCode)
    \/ HideWarningTimer
    \/ StaleWarningTimer
    \/ \E selection \in persistTimers : BetweenRuns /\ PersistTimerFires(selection)
    \/ MountZoneSelector
    \/ BetweenRuns /\ handleContinue
    \/ BetweenRuns /\ handleBack
    \/ ~mounted /\ handleReset(TRUE)

SpecDraft == Init /\ [][DraftNext]_vars

\* the rate matrix store with the zone selection: the zones of MxCodes are
\* toggled, the store is initialized over selected zones, prices are set
MatrixNext ==
    \/ \E zoneCode \in MxCodes : handleZoneToggle(zoneCode)
    \/ \E fromZones \in SUBSET ActiveZones, toZones \in SUBSET ActiveZones :
           initialize(fromZones, toZones)
    \/ \E from \in MxCodes, to \in MxCodes, value \in SetPriceValues :
           setPrice(from, to, value)

SpecMatrix == Init /\ [][MatrixNext]_vars

\* validate, called on every store content with every active zone set
ValidateNext == \E activeZones \in SUBSET MxCodes : ValidateMatrix(activeZones)

ValidateInit == ZoneInit /\ AddVendorInit /\ StoredMatrixInit /\ CardInit

SpecValidate == ValidateInit /\ [][ValidateNext]_vars

\* the draft store written by both pages: ZoneSelectorPage persists the
\* selection of the zones of MxCodes, the hooks of AddVendor save the form
MergeNext ==
    \/ \E zoneCode \in MxCodes : handleZoneToggle(zoneCode)
    \/ \E selection \in persistTimers : PersistTimerFires(selection)
    \/ \E content \in SectionContents : EditSection("basics", content)
    \/ AutoSaveDraft
    \/ handleReset(TRUE)

SpecMerge == Init /\ [][MergeNext]_vars

\* the network call of a pending request settles, and handleSubmit resumes
Settles ==
    \/ \E req \in inflight, outcome \in FailureOutcomes : RequestFailed(req, outcome)
    \/ \E req \in inflight : RequestSucceeded(req)
    \/ \E req \in inflight, i \in 1..Len(SuccessCalls) : RequestSucceededThrows(req, i)

\* a form the user fills in and submits, every call being allowed to throw
SettleNext ==
    \/ \E token \in Tokens, normalizeOk \in BOOLEAN : handleSubmit(token, normalizeOk)
    \/ \E point \in ThrowPoints : handleSubmitThrows(point)
    \/ Settles
    \/ \E s \in SectionNames : EditSection(s, "filled")
    \/ \E f \in FromZones, t \in ToZones : EditZoneRate(f, t, <<12550>>)
    \/ AutoSaveDraft

\* every network call settles: fetch resolves or rejects
SpecSettle == Init /\ [][SettleNext]_vars /\ WF_vars(Settles)

\* a form filled in and submitted or reset on AddVendor, the user moving
\* between AddVendor and ZoneSelectorPage; a pending request settles on
\* whichever page is shown
ClearNext ==
    \/ ~mounted /\ \E s \in SectionNames : EditSection(s, "filled")
    \/ ~mounted /\ \E f \in FromZones, t \in ToZones : EditZoneRate(f, t, <<12550>>)
    \/ ~mounted /\ \E token \in Tokens : handleSubmit(token, TRUE)
    \/ ~mounted /\ handleReset(TRUE)
    \/ \E req \in inflight : RequestSucceeded(req)
    \/ MountZoneSelector
    \/ handleBack
    \/ \E zoneCode \in MxCodes : handleZoneToggle(zoneCode)
    \/ \E selection \in persistTimers : PersistTimerFires(selection)

SpecClear == Init /\ [][ClearNext]_vars

\* ZoneSelectorPage opened and left again and again, the first render and
\* the render of the restored selection being separate steps
MountNext ==
    \/ MountRender
    \/ RestoreRerender
    \/ \E zoneCode \in MxCodes : handleZoneToggle(zoneCode)
    \/ \E selection \in persistTimers : PersistTimerFires(selection)
    \/ handleContinue
    \/ handleBack

SpecMount == Init /\ [][MountNext]_vars

\* the form edited, the transport mode picked, the form reset or submitted
ResetNext ==
    \/ \E mode \in TransportModes : setTransportMode(mode)
    \/ \E confirmed \in BOOLEAN : handleReset(confirmed)
    \/ \E s \in SectionNames : EditSection(s, "filled")
    \/ \E f \in FromZones, t \in ToZones : EditZoneRate(f, t, <<12550>>)
    \/ \E file \in {"none", "file"} : ChooseFile(file)
    \/ \E token \in Tokens : handleSubmit(token, TRUE)
    \/ \E req \in inflight : RequestSucceeded(req)

SpecReset == Init /\ [][ResetNext]_vars

\* one ChargeCard and the controls it renders
CardNext ==
    \/ ClickFixed
    \/ ClickVariable
    \/ \E value \in FieldValues.fixedAmount : ChangeFixedAmount(value)
    \/ \E value \in FieldValues.variableRange : ChangeVariableRange(value)
    \/ \E value \in FieldValues.unit : ChangeUnit(value)
    \/ \E value \in FieldValues.weightThreshold : ChangeWeightThreshold(value)

CardSpecInit == ZoneInit /\ AddVendorInit /\ MatrixInit /\ AnyCardInit

SpecCards == CardSpecInit /\ [][CardNext]_vars

\* normalize, called on every matrix the user can enter
NormalizeNext ==
    \/ \E f \in FromZones, t \in ToZones, cell \in NormalizeCells :
           EditZoneRate(f, t, cell)
    \/ NormalizeMatrix

SpecNormalize == Init /\ [][NormalizeNext]_vars

\* AddVendor
Next ==
    \/ \E token \in Tokens, normalizeOk \in BOOLEAN : handleSubmit(token, normalizeOk)
    \/ \E req \in inflight, outcome \in FailureOutcomes : RequestFailed(req, outcome)
    \/ \E req \in inflight : RequestSucceeded(req)
    \/ \E confirmed \in BOOLEAN : handleReset(confirmed)
    \/ \E s \in SectionNames, content \in SectionContents : EditSection(s, content)
    \/ \E f \in FromZones, t \in ToZones, cell \in Cells : EditZoneRate(f, t, cell)
    \/ \E file \in {"none", "file"} : ChooseFile(file)
    \/ AutoSaveDraft

Spec == Init /\ [][Next]_vars

\* AddVendor, the calls handleSubmit makes being allowed to throw
NextExc ==
    \/ Next
    \/ \E point \in ThrowPoints : handleSubmitThrows(point)
    \/ \E req \in inflight, i \in 1..Len(SuccessCalls) : RequestSucceededThrows(req, i)

SpecExc == Init /\ [][NextExc]_vars

----------------------------------------------------------------------------
(***************************************************************************)
(* Properties                                                              *)
(***************************************************************************)

NoDuplicates(s) == \A i, j \in 1..Len(s) : i # j => s[i] # s[j]

\* C1: the selection never holds more than MAX_ZONES codes, and a toggle of
\* an absent code made while MAX_ZONES codes are selected leaves the
\* selection exactly as it was.
C1_SelectionNeverExceedsMax ==
    /\ [](Len(selectedZones) <= MAX_ZONES)
    /\ [][(/\ toggleParity' # toggleParity
           /\ Len(selectedZones) >= MAX_ZONES
           /\ ~Includes(selectedZones, lastZone'))
          => selectedZones' = selectedZones]_vars

\* C1 witness: MAX_ZONES codes are selected and the last toggle was of a
\* code that is absent (the add was refused).
C1_Witness ==
    /\ Len(selectedZones) = MAX_ZONES
    /\ lastZone # 0
    /\ ~Includes(selectedZones, lastZone)

\* C10: a toggle removes the code when it is selected (also at MAX_ZONES),
\* appends it when it is absent and fewer than MAX_ZONES codes are selected;
\* the membership of every other code is unchanged and no code appears twice.
C10_ToggleAddsOrRemoves ==
    [][toggleParity' # toggleParity =>
        LET c == lastZone' IN
        /\ Includes(selectedZones, c) => ~Includes(selectedZones', c)
        /\ (~Includes(selectedZones, c) /\ Len(selectedZones) < MAX_ZONES)
               => selectedZones' = Append(selectedZones, c)
        /\ \A d \in ZoneCodes \ {c} :
               Includes(selectedZones', d) <=> Includes(selectedZones, d)
        /\ NoDuplicates(selectedZones')]_vars

\* C10 witness: a code was removed while MAX_ZONES codes were selected.
C10_Witness ==
    /\ Len(selectedZones) = MAX_ZONES - 1
    /\ lastZone # 0
    /\ ~Includes(selectedZones, lastZone)

\* C11: toggling an absent code while MAX_ZONES codes are selected shows the
\* limit warning and leaves the selection as it is; the warning appears at
\* no other step; removing a selected code hides it.
C11_WarningOnlyAtLimit ==
    [][LET toggled == toggleParity' # toggleParity
           c == lastZone'
           overLimit == /\ toggled
                        /\ ~Includes(selectedZones, c)
                        /\ Len(selectedZones) = MAX_ZONES
       IN  /\ overLimit => (showMaxWarning' /\ selectedZones' = selectedZones)
           /\ (~showMaxWarning /\ showMaxWarning') => overLimit
           /\ (toggled /\ Includes(selectedZones, c))
                  => (~showMaxWarning' /\ ~Includes(selectedZones', c))]_vars

\* C11 witness: the warning is shown after an absent code was toggled with
\* MAX_ZONES codes selected.
C11_Witness ==
    /\ showMaxWarning
    /\ Len(selectedZones) = MAX_ZONES
    /\ lastZone # 0
    /\ ~Includes(selectedZones, lastZone)

\* C12: the selection of ZoneSelectorPage never holds a code twice and
\* never holds more than MAX_ZONES codes, the selection restored from the
\* draft at mount included.
C12_SelectionWellFormed ==
    /\ NoDuplicates(selectedZones)
    /\ Len(selectedZones) <= MAX_ZONES
    /\ \A i \in 1..Len(selectedZones) : selectedZones[i] \in ZoneCodes

\* C12 witness: the page was mounted and restored MAX_ZONES codes.
C12_Witness ==
    /\ zoneEvent = "mount"
    /\ draftZones.present
    /\ Len(selectedZones) = MAX_ZONES

PersistStep == zoneEvent' = "persist" /\ persistTimers' # persistTimers

\* C13: at most one debounce timer is pending and it holds the current
\* selection; when it fires it writes that selection and leaves no timer
\* pending, and the draft's selectedZones get a value in no other way: the
\* changes of a burst end in one write of the final selection.
C13_BurstCoalescedIntoOneWrite ==
    /\ [](persistTimers \subseteq {selectedZones})
    /\ [][/\ PersistStep =>
               /\ draftZones' = PersistedZones(selectedZones)
               /\ persistTimers' = {}
          /\ (draftZones' # draftZones /\ draftZones'.present) => PersistStep]_vars

\* C13 witness: a timer that stood for MaxBurst selection changes has fired
\* and the draft holds the selection shown.
C13_Witness ==
    /\ zoneEvent = "persist"
    /\ burstChanges = MaxBurst
    /\ draftZones = PersistedZones(selectedZones)
    /\ Len(selectedZones) >= MaxBurst

\* C14: while the page is unmounted no debounce timer is pending and none
\* fires; unmounting writes nothing, and until the page is mounted again
\* the draft's selectedZones are only ever cleared.
C14_UnmountCancelsPendingWrite ==
    /\ [](~mounted => (persistTimers = {} /\ zoneEvent # "persist"))
    /\ [][/\ (mounted /\ ~mounted') => draftZones' = draftZones
          /\ ~mounted => (draftZones' = draftZones \/ draftZones' = NoDraftZones)]_vars

\* C14 witness: the page was left while the debounce timer of a selection
\* change was pending.
C14_Witness ==
    /\ ~mounted
    /\ cancelledWrite
    /\ burstChanges > 0
    /\ persistTimers = {}

\* C15: when the user leaves the page through handleContinue or handleBack,
\* the selectedZones AddVendor finds in the draft are the selection that was
\* shown at that moment.
C15_DraftHoldsSelectionAtLeaving ==
    [][(mounted /\ ~mounted') => RestoredSelection(draftZones') = selectedZones]_vars

\* C17: validate succeeds exactly when every pair of active zones has a
\* price that is set and not negative and no entry has a zone outside the
\* active set; an unset entry of an active pair makes it fail, a zero price
\* does not; its errors hold one missing-entry error per active pair without
\* a price and no other missing-entry error.
C17_ValidateIffCompleteAndInScope ==
    mxResult.op = "validate" =>
        LET active == mxResult.active
            errors == mxResult.errors
            inScope == active \X active
            priced == {pr \in DOMAIN rateMatrix : rateMatrix[pr] # Unset}
            unsetInScope == inScope \ priced
            missingAt == {i \in 1..Len(errors) : errors[i].kind = "missing"}
        IN  /\ mxResult.ok <=>
                   /\ \A pr \in inScope : pr \in priced /\ rateMatrix[pr][1] >= 0
                   /\ DOMAIN rateMatrix \subseteq inScope
            /\ mxResult.ok = (errors = <<>>)
            /\ {errors[i].pair : i \in missingAt} = unsetInScope
            /\ Cardinality(missingAt) = Cardinality(unsetInScope)
            /\ (mxResult.ok /\ active # {}) =>
                   \A pr \in inScope : rateMatrix[pr] \in {<<p>> : p \in MxPrices}

\* C17 witness: with both zones active, one pair unset and another priced
\* zero, validate failed with one error, the missing entry of the unset pair.
C17_Witness ==
    /\ mxResult.op = "validate"
    /\ mxResult.active = MxCodes
    /\ ~mxResult.ok
    /\ Len(mxResult.errors) = 1
    /\ mxResult.errors[1].kind = "missing"
    /\ mxResult.errors[1].pair \in DOMAIN rateMatrix
    /\ rateMatrix[mxResult.errors[1].pair] = Unset
    /\ \E pr \in DOMAIN rateMatrix : rateMatrix[pr] = <<0>>

StoreStep(op) == mxParity' # mxParity /\ mxResult'.op = op

\* C18: after initialize(fromZones, toZones) the store has one entry per
\* pair of fromZones x toZones and no other; a pair that had an entry keeps
\* its price (or stays unset), every other pair is unset; called over S x S
\* on an empty store it leaves |S|^2 entries, all unset.
C18_InitializeCoversExactlyThePairs ==
    [][StoreStep("initialize") =>
        LET fromZones == mxResult'.from
            toZones == mxResult'.to
        IN  /\ DOMAIN rateMatrix' = fromZones \X toZones
            /\ Cardinality(DOMAIN rateMatrix')
                   = Cardinality(fromZones) * Cardinality(toZones)
            /\ \A pr \in DOMAIN rateMatrix' :
                   rateMatrix'[pr] = IF pr \in DOMAIN rateMatrix THEN rateMatrix[pr]
                                     ELSE Unset
            /\ \A pr \in DOMAIN rateMatrix' :
                   pr[1] \in fromZones /\ pr[2] \in toZones
            /\ rateMatrix = EmptyStore =>
                   \A pr \in DOMAIN rateMatrix' : rateMatrix'[pr] = Unset]_vars

\* C18 witness: initialize over both zones left a store of four entries, one
\* with the price it had, another unset.
C18_Witness ==
    /\ mxResult.op = "initialize"
    /\ mxResult.from = MxCodes
    /\ mxResult.to = MxCodes
    /\ Cardinality(DOMAIN rateMatrix) = Cardinality(MxCodes) * Cardinality(MxCodes)
    /\ \E pr \in DOMAIN rateMatrix : rateMatrix[pr] # Unset
    /\ \E pr \in DOMAIN rateMatrix : rateMatrix[pr] = Unset

\* C19: setPrice with a negative value, or with a zone that is not active,
\* signals an input error and leaves the store as it was; any other setPrice
\* signals none and changes the addressed entry only.
C19_SetPriceRejectsBadInput ==
    [][StoreStep("setPrice") =>
        LET from == mxResult'.from
            to == mxResult'.to
            value == mxResult'.value
            bad == \/ from \notin ActiveZones
                   \/ to \notin ActiveZones
                   \/ (value # Unset /\ value[1] < 0)
        IN  IF bad
            THEN mxResult'.error # "none" /\ rateMatrix' = rateMatrix
            ELSE /\ mxResult'.error = "none"
                 /\ DOMAIN rateMatrix' = DOMAIN rateMatrix \cup {<<from, to>>}
                 /\ rateMatrix'[<<from, to>>] = value
                 /\ \A pr \in DOMAIN rateMatrix \ {<<from, to>>} :
                        rateMatrix'[pr] = rateMatrix[pr]]_vars

\* C19 witness: setPrice with a negative value for a pair of active zones
\* was rejected and the pair still has the price it had.
C19_Witness ==
    /\ mxResult.op = "setPrice"
    /\ mxResult.error = "negativeValue"
    /\ mxResult.from \in ActiveZones /\ mxResult.to \in ActiveZones
    /\ <<mxResult.from, mxResult.to>> \in DOMAIN rateMatrix
    /\ rateMatrix[<<mxResult.from, mxResult.to>>] # Unset
    /\ rateMatrix[<<mxResult.from, mxResult.to>>][1] >= 0

\* C20: both zones of every entry of the store are selected zones.
C20_EntriesOnlyForActiveZones ==
    \A pr \in DOMAIN rateMatrix : pr[1] \in ActiveZones /\ pr[2] \in ActiveZones

\* C21: normalize applied to what normalize returned returns the same
\* matrix, entry for entry, unset entries included.
C21_NormalizeIdempotent ==
    mxResult.op = "normalize" =>
        /\ mxResult.again = mxResult.output
        /\ \A f \in FromZones, t \in ToZones :
               mxResult.again[f][t] = mxResult.output[f][t]

\* C21 witness: normalize was applied to a matrix with an unset entry and a
\* price it had to round.
C21_Witness ==
    /\ mxResult.op = "normalize"
    /\ mxResult.output # mxResult.input
    /\ \E f \in FromZones, t \in ToZones : mxResult.input[f][t] = Unset

\* C22: normalize returns a matrix with the key pairs of its input, an entry
\* unset exactly where the input's is, and the matrix it was called on is
\* afterwards what it was before.
C22_NormalizeKeepsShapeAndInput ==
    [][StoreStep("normalize") =>
        LET output == mxResult'.output IN
        /\ mxResult'.input = zoneRates
        /\ zoneRates' = zoneRates
        /\ DOMAIN output = DOMAIN zoneRates
        /\ \A f \in DOMAIN zoneRates :
               /\ DOMAIN output[f] = DOMAIN zoneRates[f]
               /\ \A t \in DOMAIN zoneRates[f] :
                      (output[f][t] = Unset) <=> (zoneRates[f][t] = Unset)]_vars

\* C22 witness: normalize returned a matrix that differs from the stored
\* one, which still has its unrounded price and its unset entry.
C22_Witness ==
    /\ mxResult.op = "normalize"
    /\ mxResult.input = zoneRates
    /\ mxResult.output # zoneRates
    /\ \E f \in FromZones, t \in ToZones : zoneRates[f][t] = Unset
    /\ \E f \in FromZones, t \in ToZones :
           zoneRates[f][t] # Unset /\ mxResult.output[f][t] # zoneRates[f][t]

\* C23: the persistDraft({ selectedZones }) of ZoneSelectorPage changes the
\* selectedZones of the draft and leaves the form sections of the draft as
\* they were; the form of AddVendor is not touched either.
C23_PartialWriteMerges ==
    [][PersistStep =>
        /\ draftZones' = PersistedZones(selectedZones)
        /\ draft' = draft
        /\ UNCHANGED <<savePending, formVars>>]_vars

\* C23 witness: the selection was persisted into a draft that holds saved
\* form sections.
C23_Witness ==
    /\ zoneEvent = "persist"
    /\ draft = "saved"
    /\ draftZones.present
    /\ Len(draftZones.zones) > 0

FixedOnlyCards == {"codCharges", "toPayCharges"}

\* C24: a COD/DOD or To-Pay card shows the fixed rate input and neither the
\* toggle pills nor the percentage range selector, whatever its data are;
\* no action on such a card calls onFieldChange for currency or mode, and
\* its currency and mode stay what they were.
C24_FixedOnlyCards ==
    /\ [](card.name \in FixedOnlyCards =>
              /\ showFixed(card.name, card.data)
              /\ ~showVariable(card.name, card.data)
              /\ ~showToggle(card.name))
    /\ [][card.name \in FixedOnlyCards =>
              /\ card'.data.currency = card.data.currency
              /\ card'.data.mode = card.data.mode
              /\ \A i \in 1..Len(cardUpdates') :
                     cardUpdates'[i].field \notin {"currency", "mode"}]_vars

\* C24 witness: the fixed rate of a COD/DOD card whose data say variable
\* percent was edited, and the fixed rate input is still what it shows.
C24_Witness ==
    /\ card.name = "codCharges"
    /\ isVariablePercent(card.data)
    /\ cardUpdates # <<>>
    /\ showFixed(card.name, card.data)

C29_ResetRestoresInitialForm ==
    /\ [][event' \in {"reset", "success"} =>
              /\ sections' = [s \in SectionNames |-> "initial"]
              /\ zoneRates' = EmptyMatrix
              /\ priceChartFile' = "none"
              /\ transportMode' = "road"]_vars
    /\ [][event' = "resetDeclined" => UNCHANGED <<formVars, draft, draftZones>>]_vars

C26_DraftStaysEmptyAfterClear ==
    [](clearedDraft =>
           /\ draft = "empty"
           /\ draftZones.present => draftZones.zones = <<>>)

\* the events with which a submit action that passed validateAll ends
SubmitEndings ==
    {"normalizeFailed", "noCustomerID", "requestFailed", "networkError",
     "exception", "success"}

\* C25: isSubmitting is true only while a request of a submit action is
\* pending; a submit action that set it ends, on every path, with it false;
\* and, every network call settling, isSubmitting true leads to false.
C25_SubmittingIsReset ==
    /\ [](isSubmitting => inflight # {})
    /\ [][event' \in SubmitEndings => ~isSubmitting']_vars
    /\ (isSubmitting ~> ~isSubmitting)

\* C25 witness: a request was sent, its network call failed, and the submit
\* action has set isSubmitting back to false.
C25_Witness ==
    /\ sends > 0
    /\ event = "networkError"
    /\ inflight = {}
    /\ ~isSubmitting

AllSections == SectionNames \cup {"zoneRates"}

FormUnchanged == UNCHANGED <<sections, zoneRates, priceChartFile>>

C3_PayloadIsNormalized ==
    \A r \in inflight :
        /\ r.vendorJson.zoneRates = r.normalized
        /\ \A f \in FromZones, t \in ToZones :
               r.vendorJson.zoneRates[f][t] # Unset
                   => r.vendorJson.zoneRates[f][t][1] % 10 = 0

\* C4: a request is sent only when all five section validators pass on the
\* form as it is at the submit event; validateAll is true iff all five pass;
\* a failed validation sends nothing, never sets isSubmitting and reports
\* exactly one error per failing section.
C4_ValidationGatesSubmission ==
    /\ [](validateAll <=>
             /\ \A s \in SectionNames : SectionValid(sections[s])
             /\ validateZoneRates(zoneRates))
    /\ [](event = "validationFailed" =>
             /\ toasts # {}
             /\ toasts \subseteq AllSections
             /\ \A s \in SectionNames : s \in toasts <=> ~SectionValid(sections[s])
             /\ "zoneRates" \in toasts <=> ~validateZoneRates(zoneRates)
             /\ ~isSubmitting)
    /\ [][inflight' # inflight /\ ~(inflight' \subseteq inflight) =>
             /\ \A s \in SectionNames : SectionValid(sections[s])
             /\ validateZoneRates(zoneRates)]_vars
    /\ [][event' = "validationFailed" =>
             /\ inflight' = inflight
             /\ fetchCalls' = fetchCalls
             /\ isSubmitting' = isSubmitting]_vars

\* C4 witness: a submit action failed validation in at least two sections.
C4_Witness ==
    /\ event = "validationFailed"
    /\ Cardinality(toasts) >= 2
    /\ "zoneRates" \in toasts

SubmitOutcomes ==
    {"validationFailed", "normalizeFailed", "noCustomerID", "sent",
     "requestFailed", "networkError", "success"}

\* C6: on an OK answer with a truthy success flag the draft is cleared, the
\* five sections and the chosen file are reset and the refresh trigger goes
\* up by one; no other outcome of a submit action has any of these effects.
C6_SuccessClearsAndRefreshes ==
    /\ [][event' = "success" =>
             /\ draft' = "empty"
             /\ sections' = [s \in SectionNames |-> "initial"]
             /\ zoneRates' = EmptyMatrix
             /\ priceChartFile' = "none"
             /\ refreshTrigger' = refreshTrigger + 1]_vars
    /\ [][event' \in SubmitOutcomes \ {"success"} =>
             /\ FormUnchanged
             /\ UNCHANGED <<draft, refreshTrigger>>]_vars

\* C6 witness: a submission has succeeded and its effects are in place.
C6_Witness ==
    /\ event = "success"
    /\ refreshTrigger >= 1
    /\ draft = "empty"
    /\ priceChartFile = "none"
    /\ zoneRates = EmptyMatrix

\* C7: when the request fails, isSubmitting returns to false, no further
\* request is made for the submit action, and the draft, the form sections
\* and the chosen file are left as they were.
C7_FailureKeepsFormAndDraft ==
    /\ [][event' \in {"requestFailed", "networkError"} =>
             /\ isSubmitting' = FALSE
             /\ fetchCalls' = fetchCalls
             /\ inflight' \subseteq inflight
             /\ inflight' # inflight
             /\ FormUnchanged
             /\ UNCHANGED draft]_vars
    /\ [](fetchCalls = sends)

\* C7 witness: a request failed while the draft was saved and the form filled.
C7_Witness ==
    /\ event = "requestFailed"
    /\ ~isSubmitting
    /\ draft = "saved"
    /\ priceChartFile = "file"
    /\ validateAll
    /\ fetchCalls = 1

\* a token from which no customer identifier can be derived
NoCustomerIdentifier(token) ==
    \/ token.segments < 2
    \/ ~token.decodes
    \/ \A c \in ClaimNames : token.payload[c] = ""

\* C8: no identifier is derived exactly from the tokens that are absent, have
\* fewer than two segments, do not decode or carry none of the six claims;
\* then no request is sent, one error is reported, isSubmitting is false and
\* the draft and the form are unchanged.
C8_NoCustomerIdBlocksSubmission ==
    /\ [](\A token \in Tokens :
             NoCustomerIdentifier(token) <=> getCustomerIDFromToken(token) = "")
    /\ [](\A r \in inflight : r.customerID # "")
    /\ [][event' = "noCustomerID" =>
             /\ inflight' = inflight
             /\ fetchCalls' = fetchCalls
             /\ Cardinality(toasts') = 1
             /\ isSubmitting' = FALSE
             /\ FormUnchanged
             /\ UNCHANGED draft]_vars

\* C8 witness: a submit action of a valid, saved form ended for lack of a
\* customer identifier.
C8_Witness ==
    /\ event = "noCustomerID"
    /\ validateAll
    /\ draft = "saved"
    /\ ~isSubmitting
    /\ inflight = {}

\* the fields appended to the FormData, and the fields of a request record
\* that only record what the matrix was
RequestFields == {"customerID", "companyName", "priceRate", "priceChart", "vendorJson"}

RecordedFields == {"id", "validated", "normalized"}

\* C16: every request handed to fetch has exactly the fields customerID,
\* companyName, priceRate, priceChart and vendorJson; customerID is not
\* empty, companyName is the trimmed name of the vendor object, vendorJson
\* is that object, and priceChart is the chosen file, or the placeholder
\* when no file is chosen.
C16_RequestCarriesFiveFields ==
    [][(event' = "sent" /\ sends' # sends) =>
        /\ inflight' # inflight
        /\ \A r \in inflight' \ inflight :
            /\ (DOMAIN r) \ RecordedFields = RequestFields
            /\ r.customerID # ""
            /\ r.companyName = Trim(r.vendorJson.companyName)
            /\ r.companyName # r.vendorJson.companyName
            /\ r.priceRate = "0"
            /\ r.priceChart # "none"
            /\ r.priceChart = IF priceChartFile = "none" THEN "placeholder"
                              ELSE priceChartFile]_vars

\* C16 witness: a request was sent with the placeholder, no file being
\* chosen.
C16_Witness ==
    /\ event = "sent"
    /\ priceChartFile = "none"
    /\ \E r \in inflight : r.id = sends /\ r.priceChart = "placeholder"

\* C9: an exception raised during a submit action never leaves handleSubmit,
\* is turned into the generic error message and leaves isSubmitting false.
C9_ExceptionsAreCaught ==
    event \in {"threw", "exception", "networkError"} =>
        /\ ~escaped
        /\ toasts = {GenericError}
        /\ ~isSubmitting

====
